---- MODULE Spec2Model ----
(***************************************************************************)
(* Model of finance.py (drjubbs/portfolio-risk): net present value,        *)
(* internal rate of return, nearest-date lookup on a price index, cash     *)
(* flow synthesis and the rolling rate-of-return scan.                     *)
(*                                                                         *)
(* Timestamps are whole days (every datetime of the program is a midnight  *)
(* and every timedelta a whole number of days).  Real amounts are exact    *)
(* rationals <<numerator, denominator>>.  A DataFrame is a sequence of     *)
(* rows (records).  A call's result is a record [outcome, value, soln]:    *)
(* outcome "return" with the returned value, or outcome "raise" with the   *)
(* name of the exception.                                                  *)
(***************************************************************************)
EXTENDS Integers, Sequences, FiniteSets, TLC

VARIABLES df_dates, df_in, call, pc, offsets, horizon, idx, start, dates, ror

vars == <<df_dates, df_in, call, pc, offsets, horizon, idx, start, dates, ror>>

(***************************************************************************)
(* Bounds of the model                                                     *)
(***************************************************************************)
MaxIndexRows == 3
MaxFlowRows == 3
MaxOffsets == 2
MaxHorizon == 2

(***************************************************************************)
(* Exact rational arithmetic (Python float arithmetic without rounding)    *)
(***************************************************************************)
RECURSIVE GCD(_, _)
GCD(a, b) == IF b = 0 THEN a ELSE GCD(b, a % b)

Abs(n) == IF n < 0 THEN -n ELSE n

RNorm(q) ==
    LET n == q[1]
        d == q[2]
        g == GCD(Abs(n), Abs(d))
        s == IF d < 0 THEN -1 ELSE 1
    IN  <<(s * n) \div g, (s * d) \div g>>

R(n) == <<n, 1>>
RAdd(p, q) == RNorm(<<p[1] * q[2] + q[1] * p[2], p[2] * q[2]>>)
RMul(p, q) == RNorm(<<p[1] * q[1], p[2] * q[2]>>)
RDiv(p, q) == RNorm(<<p[1] * q[2], p[2] * q[1]>>)
RNeg(p) == <<-p[1], p[2]>>
RIsNeg(p) == p[1] < 0
RIsPos(p) == p[1] > 0

RECURSIVE RSum(_)
RSum(s) == IF s = <<>> THEN R(0) ELSE RAdd(RSum(SubSeq(s, 1, Len(s) - 1)), s[Len(s)])

RECURSIVE RPowInt(_, _)
RPowInt(b, k) == IF k = 0 THEN R(1) ELSE RMul(b, RPowInt(b, k - 1))

ISqrt(n) == CHOOSE s \in 0..n : s * s = n
RSqrt(b) == <<ISqrt(b[1]), ISqrt(b[2])>>

\* b ** (yd / 100) for yd a whole number of half years (the model's dates
\* give no other yd) and b a square of a rational (the model's discount
\* rates give no other base)
RPow(b, yd) ==
    IF yd < 0 THEN RDiv(R(1), RMul(RPowInt(b, (-yd) \div 100),
                                   IF (-yd) % 100 = 0 THEN R(1) ELSE RSqrt(b)))
    ELSE RMul(RPowInt(b, yd \div 100), IF yd % 100 = 0 THEN R(1) ELSE RSqrt(b))

(***************************************************************************)
(* Results of a call                                                       *)
(***************************************************************************)
NoSoln == [converged |-> TRUE, x |-> [kind |-> "none", f |-> <<>>]]
Return(v) == [outcome |-> "return", value |-> v, soln |-> NoSoln]
Raise(e) == [outcome |-> "raise", value |-> e, soln |-> NoSoln]

(***************************************************************************)
(* DataFrame.sort_values(by='datetime'): ascending, rows of equal          *)
(* datetime keep their order                                               *)
(***************************************************************************)
RECURSIVE Insert(_, _)
Insert(row, s) ==
    IF s = <<>> THEN <<row>>
    ELSE IF s[Len(s)].datetime <= row.datetime THEN Append(s, row)
    ELSE Append(Insert(row, SubSeq(s, 1, Len(s) - 1)), s[Len(s)])

RECURSIVE SortByDatetime(_)
SortByDatetime(df) ==
    IF df = <<>> THEN <<>>
    ELSE Insert(df[Len(df)], SortByDatetime(SubSeq(df, 1, Len(df) - 1)))

(***************************************************************************)
(* return_closest_time                                                     *)
(***************************************************************************)
SeqMin(s) == CHOOSE m \in {s[i] : i \in 1..Len(s)} : \A i \in 1..Len(s) : m <= s[i]

return_closest_time_ClosedBounds(df, date_in) ==
    LET sorted == SortByDatetime(df)
        dmin == sorted[1].datetime
        dmax == sorted[Len(sorted)].datetime
        time_deltas == [i \in 1..Len(sorted) |-> Abs(sorted[i].datetime - date_in)]
        IsClosest(i) == time_deltas[i] = SeqMin(time_deltas)
        first == CHOOSE i \in 1..Len(sorted) :
                    IsClosest(i) /\ \A j \in 1..(i - 1) : ~IsClosest(j)
    IN  IF date_in <= dmin THEN Raise("ValueError")
        ELSE IF date_in >= dmax THEN Raise("ValueError")
        ELSE Return(sorted[first])

return_closest_time_NoSort(df, date_in) ==
    LET dmin == SeqMin([i \in 1..Len(df) |-> df[i].datetime])
        dmax == -SeqMin([i \in 1..Len(df) |-> -df[i].datetime])
        time_deltas == [i \in 1..Len(df) |-> Abs(df[i].datetime - date_in)]
        IsClosest(i) == time_deltas[i] = SeqMin(time_deltas)
        first == CHOOSE i \in 1..Len(df) :
                    IsClosest(i) /\ \A j \in 1..(i - 1) : ~IsClosest(j)
    IN  IF date_in < dmin THEN Raise("ValueError")
        ELSE IF date_in > dmax THEN Raise("ValueError")
        ELSE Return(df[first])

return_closest_time(df, date_in) ==
    LET sorted == SortByDatetime(df)
        dmin == sorted[1].datetime
        dmax == sorted[Len(sorted)].datetime
        time_deltas == [i \in 1..Len(sorted) |-> Abs(sorted[i].datetime - date_in)]
        IsClosest(i) == time_deltas[i] = SeqMin(time_deltas)
        first == CHOOSE i \in 1..Len(sorted) :
                    IsClosest(i) /\ \A j \in 1..(i - 1) : ~IsClosest(j)
    IN  IF date_in < dmin THEN Raise("ValueError")
        ELSE IF date_in > dmax THEN Raise("ValueError")
        ELSE Return(sorted[first])

(***************************************************************************)
(* calc_npv                                                                *)
(***************************************************************************)
\* round(total_seconds / (365.25 * 24 * 60 * 60), 2), in hundredths of a
\* year; days * 400 / 1461 is never half way between two integers
YearsDelta(days) ==
    IF days < 0 THEN -((((-days) * 800) + 1461) \div 2922)
    ELSE ((days * 800) + 1461) \div 2922

\* 1 + discount / 100
Base(discount) == RNorm(<<100 + discount, 100>>)

DiscountFlow(row, t0, discount) ==
    IF Base(discount) = R(0) THEN row.flows
    ELSE RDiv(row.flows, RPow(Base(discount), YearsDelta(row.datetime - t0)))

calc_npv_unsorted(df, discount) ==
    IF df = <<>> THEN Raise("KeyError")
    ELSE Return(RSum([i \in 1..Len(df) |-> DiscountFlow(df[i], df[1].datetime, discount)]))

calc_npv(df, discount) ==
    LET sorted == SortByDatetime(df)
    IN  IF sorted = <<>> THEN Raise("KeyError")
        ELSE Return(RSum([i \in 1..Len(sorted) |->
                            DiscountFlow(sorted[i], sorted[1].datetime, discount)]))

(***************************************************************************)
(* calc_internal_ror: the set of its possible results                      *)
(***************************************************************************)
x0 == 6

\* A series whose flows all have one sign has no zero of calc_npv at any
\* rate above -100: every discounted flow keeps the sign of its amount.
OneSigned(f) == \/ \A i \in 1..Len(f) : RIsNeg(f[i].flows)
                \/ \A i \in 1..Len(f) : RIsPos(f[i].flows)

\* scipy.optimize.root(f, x0=6, method='lm') on f = calc_npv(df, .) hands
\* back an OptimizeResult and raises nothing when the iteration does not
\* converge: x is then where it stopped, the seed x0 or a later iterate.
\* converged tells whether x is a zero of f (the model's name for what the
\* result's success and fun fields report).
root(f) ==
    { s \in { [converged |-> TRUE, x |-> [kind |-> "root", f |-> f]],
              [converged |-> FALSE, x |-> [kind |-> "x0", f |-> f]],
              [converged |-> FALSE, x |-> [kind |-> "iterate", f |-> f]] } :
        s.converged => ~OneSigned(f) }

calc_internal_ror(df) ==
    LET sorted == SortByDatetime(df)
    IN  IF sorted = <<>> THEN {Raise("KeyError")}   \* root's first call of calc_npv
        ELSE {[outcome |-> "return", value |-> soln.x, soln |-> soln] : soln \in root(sorted)}

(***************************************************************************)
(* calc_modified_irr: the set of its possible results                      *)
(***************************************************************************)
IsOutflow(row) == RIsNeg(row.flows)
IsInflow(row) == RIsPos(row.flows)
Flows(df) == [i \in 1..Len(df) |-> df[i].flows]

calc_modified_irr(df) ==
    LET outs == SelectSeq(df, IsOutflow)
        ins == SelectSeq(df, IsInflow)
        begin == outs[1].datetime
        total_in == RNeg(RSum(Flows(outs)))
        end == ins[Len(ins)].datetime
        total_out == RSum(Flows(ins))
        df_flows == << [datetime |-> begin, flows |-> RNeg(total_in)],
                       [datetime |-> end, flows |-> total_out] >>
    IN  IF outs = <<>> \/ ins = <<>> THEN {Raise("IndexError")}
        ELSE calc_internal_ror(df_flows)

(***************************************************************************)
(* create_flows                                                            *)
(***************************************************************************)
\* lines 130-131: the shares bought by one leg and its (negative) flow
InvestRow(row, invest_amount) ==
    [datetime |-> row.datetime, adj_close |-> row.adj_close,
     shares |-> RDiv(invest_amount, R(row.adj_close)),
     flows |-> RMul(R(-1), invest_amount)]

DivestRow_AtCost(row, shares) ==
    [datetime |-> row.datetime, adj_close |-> row.adj_close,
     shares |-> RNeg(shares), flows |-> shares]

\* lines 137-138: all shares sold at the price of the divestment date
DivestRow(row, shares) ==
    [datetime |-> row.datetime, adj_close |-> row.adj_close,
     shares |-> RNeg(shares), flows |-> RMul(shares, R(row.adj_close))]

create_flows_FromCallerBegin(df, in_amount, dt_begin, in_offsets, out_offset) ==
    LET r0 == return_closest_time(df, dt_begin)
        n == Len(in_offsets)
        in_rows == [i \in 1..n |-> return_closest_time(df, dt_begin + in_offsets[i])]
        invest_amount == RDiv(R(in_amount), R(n))
        df_in_flows == [i \in 1..n |-> InvestRow(in_rows[i].value, invest_amount)]
        shares == RSum([i \in 1..n |-> df_in_flows[i].shares])
        dt_end == return_closest_time(df, dt_begin + out_offset)
    IN  IF r0.outcome = "raise" THEN r0
        ELSE IF \E i \in 1..n : in_rows[i].outcome = "raise" THEN Raise("ValueError")
        ELSE IF n = 0 THEN Raise("ZeroDivisionError")
        ELSE IF dt_end.outcome = "raise" THEN dt_end
        ELSE Return(df_in_flows \o <<DivestRow(dt_end.value, shares)>>)

create_flows(df, in_amount, dt_begin, in_offsets, out_offset) ==
    LET r0 == return_closest_time(df, dt_begin)
        begin == r0.value.datetime
        n == Len(in_offsets)
        in_rows == [i \in 1..n |-> return_closest_time(df, begin + in_offsets[i])]
        invest_amount == RDiv(R(in_amount), R(n))
        df_in_flows == [i \in 1..n |-> InvestRow(in_rows[i].value, invest_amount)]
        shares == RSum([i \in 1..n |-> df_in_flows[i].shares])
        dt_end == return_closest_time(df, begin + out_offset)
    IN  IF r0.outcome = "raise" THEN r0
        ELSE IF \E i \in 1..n : in_rows[i].outcome = "raise" THEN Raise("ValueError")
        ELSE IF n = 0 THEN Raise("ZeroDivisionError")
        ELSE IF dt_end.outcome = "raise" THEN dt_end
        ELSE Return(df_in_flows \o <<DivestRow(dt_end.value, shares)>>)

(***************************************************************************)
(* Inputs                                                                  *)
(***************************************************************************)
IndexDays == {0, 2, 365, 366}
PriceCurves == { [d \in IndexDays |-> IF d < 365 THEN 1 ELSE 2],
                 [d \in IndexDays |-> IF d = 0 THEN 4 ELSE IF d = 2 THEN 2 ELSE 3] }
TargetDays == {-1, 0, 1, 2, 183, 365, 366, 367}
OffsetDays == {0, 2, 365}
OutOffsets == {0, 365, 730}
InAmounts == {100, 1000}
FlowDays == {0, 1, 183, 366}
Amounts == {-2, 0, 3}
DiscountRates == {-100, -75, 0, 300}
Horizons == 0..MaxHorizon

SeqsUpTo(S, n) == UNION {[1..k -> S] : k \in 0..n}
Injective(s) == \A i, j \in 1..Len(s) : i # j => s[i] # s[j]

\* price indexes: up to MaxIndexRows samples of distinct dates, in any row order
Indexes ==
    { [i \in 1..Len(days) |-> [datetime |-> days[i], adj_close |-> curve[days[i]]]] :
        days \in {s \in SeqsUpTo(IndexDays, MaxIndexRows) : Len(s) >= 1 /\ Injective(s)},
        curve \in PriceCurves }

\* cash flow series: up to MaxFlowRows rows, duplicate dates allowed, any order
FlowRows == {[datetime |-> d, flows |-> R(a)] : d \in FlowDays, a \in Amounts}
Series == SeqsUpTo(FlowRows, MaxFlowRows)

OffsetLists == SeqsUpTo(OffsetDays, MaxOffsets)

IsSorted(df) == \A i \in 1..(Len(df) - 1) : df[i].datetime <= df[i + 1].datetime

NoCall == [fn |-> "none", args |-> <<>>, result |-> Return(<<>>)]

Idle == /\ pc = "idle" /\ offsets = <<>> /\ horizon = 0
        /\ idx = 0 /\ start = 0 /\ dates = <<>> /\ ror = <<>>

scan == <<pc, offsets, horizon, idx, start, dates, ror>>

InitIndex == /\ df_dates \in Indexes /\ df_in = <<>> /\ call = NoCall /\ Idle
InitSeries == /\ df_dates = <<>> /\ df_in \in Series /\ call = NoCall /\ Idle

(***************************************************************************)
(* Calls of the functions on a series                                      *)
(***************************************************************************)
CallNpv ==
    /\ pc = "idle" /\ call.fn = "none"
    /\ \E discount \in DiscountRates :
         call' = [fn |-> "calc_npv", args |-> <<df_in, discount>>,
                  result |-> calc_npv(df_in, discount)]
    /\ UNCHANGED <<df_dates, df_in, scan>>

CallInternalRor ==
    /\ pc = "idle" /\ call.fn = "none"
    /\ \E r \in calc_internal_ror(df_in) :
         call' = [fn |-> "calc_internal_ror", args |-> <<df_in>>, result |-> r]
    /\ UNCHANGED <<df_dates, df_in, scan>>

CallModifiedIrr ==
    /\ pc = "idle" /\ call.fn = "none"
    /\ \E r \in calc_modified_irr(df_in) :
         call' = [fn |-> "calc_modified_irr", args |-> <<df_in>>, result |-> r]
    /\ UNCHANGED <<df_dates, df_in, scan>>

(***************************************************************************)
(* Calls of the functions on a price index                                 *)
(***************************************************************************)
CallClosestTime ==
    /\ pc = "idle" /\ call.fn = "none"
    /\ \E date_in \in TargetDays :
         call' = [fn |-> "return_closest_time", args |-> <<df_dates, date_in>>,
                  result |-> return_closest_time(df_dates, date_in)]
    /\ UNCHANGED <<df_dates, df_in, scan>>

CallCreateFlows ==
    /\ pc = "idle" /\ call.fn = "none"
    /\ \E in_amount \in InAmounts, dt_begin \in TargetDays,
          in_offsets \in OffsetLists, out_offset \in OutOffsets :
         call' = [fn |-> "create_flows",
                  args |-> <<df_dates, in_amount, dt_begin, in_offsets, out_offset>>,
                  result |-> create_flows(df_dates, in_amount, dt_begin,
                                          in_offsets, out_offset)]
    /\ UNCHANGED <<df_dates, df_in, scan>>

(***************************************************************************)
(* rolling_rate_of_return: one action for the entry, one for each turn of  *)
(* the while loop, one for the exit                                        *)
(***************************************************************************)
InvestPerScan == 100

\* int(horizon * 365.25), a number of days
Window(h) == (h * 1461) \div 4

\* df_index.iloc[i, :].datetime, i counted from 0
ILoc(df, i) == df[i + 1].datetime

ScanArgs == <<df_dates, offsets, horizon>>

RollBegin ==
    /\ pc = "idle" /\ call.fn = "none"
    /\ \E offs \in OffsetLists, h \in Horizons :
         /\ offsets' = offs
         /\ horizon' = h
    /\ idx' = 0
    /\ start' = ILoc(df_dates, 0)
    /\ dates' = <<>>
    /\ ror' = <<>>
    /\ pc' = "loop"
    /\ UNCHANGED <<df_dates, df_in, call>>

RollRaise(e) ==
    /\ pc' = "raised"
    /\ call' = [fn |-> "rolling_rate_of_return", args |-> ScanArgs, result |-> Raise(e)]

RollStep ==
    /\ pc = "loop"
    /\ start + Window(horizon) <= ILoc(df_dates, Len(df_dates) - 1)
    /\ LET flows == create_flows(df_dates, InvestPerScan, start, offsets, Window(horizon))
       IN  IF flows.outcome = "raise"
           THEN RollRaise(flows.value) /\ UNCHANGED <<idx, start, dates, ror>>
           ELSE \E r \in calc_modified_irr(flows.value) :
                  IF r.outcome = "raise"
                  THEN RollRaise(r.value) /\ UNCHANGED <<idx, start, dates, ror>>
                  ELSE /\ ror' = Append(ror, r.value)
                       /\ dates' = Append(dates, start)
                       /\ idx' = idx + 1
                       /\ IF idx + 1 < Len(df_dates)
                          THEN /\ start' = ILoc(df_dates, idx + 1)
                               /\ UNCHANGED <<pc, call>>
                          ELSE RollRaise("IndexError") /\ UNCHANGED start
    /\ UNCHANGED <<df_dates, df_in, offsets, horizon>>

RollExit ==
    /\ pc = "loop"
    /\ ~(start + Window(horizon) <= ILoc(df_dates, Len(df_dates) - 1))
    /\ pc' = "returned"
    /\ call' = [fn |-> "rolling_rate_of_return", args |-> ScanArgs,
                result |-> Return([i \in 1..Len(dates) |->
                                     [datetime |-> dates[i], ror |-> ror[i]]])]
    /\ UNCHANGED <<df_dates, df_in, offsets, horizon, idx, start, dates, ror>>

(***************************************************************************)
(* Specifications                                                          *)
(***************************************************************************)
NextSeries == CallNpv \/ CallInternalRor \/ CallModifiedIrr

NextIndex == CallClosestTime \/ CallCreateFlows \/ RollBegin \/ RollStep \/ RollExit

SpecSeries == InitSeries /\ [][NextSeries]_vars

SpecIndex == InitIndex /\ [][NextIndex]_vars

(***************************************************************************)
(* Properties                                                              *)
(***************************************************************************)
Rows(df) == {df[i] : i \in 1..Len(df)}
DatesOf(df) == {df[i].datetime : i \in 1..Len(df)}
MinDate(df) == CHOOSE d \in DatesOf(df) : \A e \in DatesOf(df) : d <= e
MaxDate(df) == CHOOSE d \in DatesOf(df) : \A e \in DatesOf(df) : e <= d
InRange(df, t) == MinDate(df) <= t /\ t <= MaxDate(df)
Perms(df) == {[i \in 1..Len(df) |-> df[p[i]]] : p \in Permutations(1..Len(df))}

\* C1: return_closest_time raises ValueError exactly when the target is
\* strictly before the smallest or strictly after the largest timestamp of
\* the index, whatever the row order; for every target from the smallest to
\* the largest timestamp, both included, it returns a row of the index.
C1_OutOfRangeExactlyOutside ==
    call.fn = "return_closest_time" =>
        LET df == call.args[1]
            t == call.args[2]
        IN  /\ (call.result.outcome = "raise") <=> (t < MinDate(df) \/ t > MaxDate(df))
            /\ call.result.outcome = "raise" => call.result.value = "ValueError"
            /\ call.result.outcome = "return" => call.result.value \in Rows(df)

\* a lookup at the largest timestamp of an index given out of order returns
C1_Witness ==
    /\ call.fn = "return_closest_time"
    /\ ~IsSorted(call.args[1])
    /\ call.args[2] = MaxDate(call.args[1])
    /\ call.result.outcome = "return"

\* C2: for an index in any row order and an in-range target, the returned
\* row is a row of the index at the least absolute distance from the
\* target, and of two rows at that distance the earlier one.
C2_ClosestEarlierOnTie ==
    (call.fn = "return_closest_time" /\ InRange(call.args[1], call.args[2])) =>
        LET df == call.args[1]
            t == call.args[2]
            row == call.result.value
        IN  /\ call.result.outcome = "return"
            /\ row \in Rows(df)
            /\ \A r \in Rows(df) : Abs(row.datetime - t) <= Abs(r.datetime - t)
            /\ \A r \in Rows(df) :
                 Abs(r.datetime - t) = Abs(row.datetime - t) => row.datetime <= r.datetime

\* a tie between two rows, the later of them placed first in the index
C2_Witness ==
    /\ call.fn = "return_closest_time"
    /\ call.result.outcome = "return"
    /\ LET df == call.args[1]
           t == call.args[2]
       IN  \E i, j \in 1..Len(df) :
             /\ i < j /\ df[i].datetime > df[j].datetime
             /\ df[i].datetime - t = t - df[j].datetime
             /\ call.result.value = df[j]

\* C3: calc_npv gives the same result for every permutation of the rows of
\* a series (duplicate timestamps allowed) at every rate: it is the sum over
\* the rows of the amount discounted over the time elapsed since the
\* earliest timestamp of the series, wherever that row sits.
C3_NpvOrderIndependent ==
    call.fn = "calc_npv" =>
        LET df == call.args[1]
            discount == call.args[2]
        IN  /\ \A P \in Perms(df) : calc_npv(P, discount) = call.result
            /\ df # <<>> =>
                 /\ call.result.outcome = "return"
                 /\ call.result.value =
                      RSum([i \in 1..Len(df) |-> DiscountFlow(df[i], MinDate(df), discount)])

\* three rows out of order, two of them on the same date, discounted at 300%
C3_Witness ==
    /\ call.fn = "calc_npv"
    /\ call.result.outcome = "return"
    /\ call.args[2] = 300
    /\ LET df == call.args[1]
       IN  /\ Len(df) = 3 /\ ~IsSorted(df)
           /\ Cardinality(DatesOf(df)) = 2
           /\ \A i \in 1..3 : df[i].flows # R(0)

\* C4: when the root finder does not converge, calc_internal_ror (and
\* calc_modified_irr, which ends in it) fails with an error and returns no
\* rate: neither the seed 6 nor the solver's last iterate.
C4_NonConvergenceRaises ==
    (call.fn \in {"calc_internal_ror", "calc_modified_irr"} /\ ~call.result.soln.converged)
        => call.result.outcome = "raise"

\* C5: on a sorted index, a scan in which create_flows raises nothing
\* returns a sequence holding, in index order, exactly the sample dates d
\* with d + horizon * 365.25 days <= the last index date, each with the
\* modified IRR of the flows synthesized at d.
C5_ScanRecordsEveryDateInHorizon ==
    (/\ pc \in {"returned", "raised"}
     /\ IsSorted(df_dates)
     /\ ~(pc = "raised" /\ call.result.value \in {"ValueError", "ZeroDivisionError"}))
        => LET last == df_dates[Len(df_dates)].datetime
               InHorizon(d) == 4 * d + 1461 * horizon <= 4 * last
               expected == SelectSeq([i \in 1..Len(df_dates) |-> df_dates[i].datetime],
                                     InHorizon)
           IN  /\ pc = "returned"
               /\ call.result.outcome = "return"
               /\ [i \in 1..Len(call.result.value) |-> call.result.value[i].datetime]
                     = expected
               /\ \A i \in 1..Len(call.result.value) :
                    call.result.value[i].ror \in
                      {r.value : r \in calc_modified_irr(
                          create_flows(df_dates, InvestPerScan, expected[i], offsets,
                                       Window(horizon)).value)}

NearestDate(df, t) ==
    CHOOSE d \in DatesOf(df) :
        \A e \in DatesOf(df) : \/ Abs(d - t) < Abs(e - t)
                               \/ (Abs(d - t) = Abs(e - t) /\ d <= e)

PriceAt(df, d) == (CHOOSE r \in Rows(df) : r.datetime = d).adj_close

\* C6: with a non-empty offset list and every lookup in range, create_flows
\* returns count(offsets) + 1 rows: one investment row per offset, in offset
\* order, dated at the index date nearest to (resolved begin + offset) where
\* the resolved begin is the index date nearest to begin_time, each with
\* flow -(invest_amount / count(offsets)), the investment flows summing to
\* -invest_amount; then the divestment row, dated at the index date nearest
\* to (resolved begin + divest offset).
C6_FlowRowsAnchoredAtResolvedBegin ==
    call.fn = "create_flows" =>
        LET df == call.args[1]
            in_amount == call.args[2]
            dt_begin == call.args[3]
            in_offsets == call.args[4]
            out_offset == call.args[5]
            n == Len(in_offsets)
            resolved == NearestDate(df, dt_begin)
            rows == call.result.value
        IN  (/\ n >= 1
             /\ InRange(df, dt_begin)
             /\ \A i \in 1..n : InRange(df, resolved + in_offsets[i])
             /\ InRange(df, resolved + out_offset))
            => /\ call.result.outcome = "return"
               /\ Len(rows) = n + 1
               /\ \A i \in 1..n :
                    /\ rows[i].datetime = NearestDate(df, resolved + in_offsets[i])
                    /\ rows[i].flows = RNeg(RDiv(R(in_amount), R(n)))
               /\ RSum([i \in 1..n |-> rows[i].flows]) = R(-in_amount)
               /\ rows[n + 1].datetime = NearestDate(df, resolved + out_offset)

\* a begin_time that is no index date, two legs, and a leg whose date
\* differs from the one nearest to (begin_time + offset)
C6_Witness ==
    /\ call.fn = "create_flows"
    /\ call.result.outcome = "return"
    /\ call.args[3] \notin DatesOf(call.args[1])
    /\ Len(call.args[4]) = 2
    /\ \E i \in 1..2 :
         call.result.value[i].datetime
            # NearestDate(call.args[1], call.args[3] + call.args[4][i])

\* C7: in a series returned by create_flows each investment row's shares
\* are the per-leg amount divided by the index price at the row's date, the
\* divestment row's shares are minus the sum of the investment shares (all
\* shares sum to zero), and the divestment flow is that sum of shares times
\* the index price at the divestment date.
C7_SharesBalance ==
    (call.fn = "create_flows" /\ call.result.outcome = "return") =>
        LET df == call.args[1]
            rows == call.result.value
            n == Len(rows) - 1
            leg == RDiv(R(call.args[2]), R(n))
            bought == RSum([i \in 1..n |-> rows[i].shares])
        IN  /\ \A i \in 1..n :
                 rows[i].shares = RDiv(leg, R(PriceAt(df, rows[i].datetime)))
            /\ rows[n + 1].shares = RNeg(bought)
            /\ RSum([i \in 1..(n + 1) |-> rows[i].shares]) = R(0)
            /\ rows[n + 1].flows = RMul(bought, R(PriceAt(df, rows[n + 1].datetime)))

\* two legs bought at different prices, sold at a third price
C7_Witness ==
    /\ call.fn = "create_flows"
    /\ call.result.outcome = "return"
    /\ Len(call.result.value) = 3
    /\ Cardinality({call.result.value[i].adj_close : i \in 1..3}) = 3

\* C8: for a series in any row order with an outflow and an inflow,
\* calc_modified_irr hands to the IRR solver the two rows (begin, -total_in)
\* and (end, total_out): begin the date of the chronologically first
\* outflow, end the date of the chronologically last inflow, total_in minus
\* the sum of the negative amounts, total_out the sum of the positive ones.
C8_TwoPointSeriesChronological ==
    call.fn = "calc_modified_irr" =>
        LET df == call.args[1]
            outs == SelectSeq(df, IsOutflow)
            ins == SelectSeq(df, IsInflow)
        IN  (outs # <<>> /\ ins # <<>>) =>
              /\ call.result.outcome = "return"
              /\ call.result.soln.x.f = SortByDatetime(
                   << [datetime |-> MinDate(outs), flows |-> RSum(Flows(outs))],
                      [datetime |-> MaxDate(ins), flows |-> RSum(Flows(ins))] >>)

\* C9: calc_npv has no error outcome: 0 for the empty series, the flow's
\* amount for a series of one flow, at every discount rate.
C9_NpvNeverFails ==
    call.fn = "calc_npv" =>
        /\ call.result.outcome = "return"
        /\ call.args[1] = <<>> => call.result.value = R(0)
        /\ Len(call.args[1]) = 1 => call.result.value = call.args[1][1].flows

\* C10: on a non-empty sorted index and a horizon >= 0 the scan never reads
\* a start date past the last row of the index (idx counts rows from 0).
C10_ScanNeverReadsPastLastRow ==
    (pc # "idle" /\ IsSorted(df_dates)) => idx < Len(df_dates)

====
